---- MODULE Spec2Model ----
(***************************************************************************)
(* The userspace syscall gateway of Rodnix (userspace/lib/src/syscalls.rs) *)
(* and the IpcMessage envelope (userspace/lib/src/types.rs).               *)
(*                                                                         *)
(* A thread is in user code ("user"), inside the kernel after executing    *)
(* `int 0x80` ("kernel"), back in the gateway with the kernel's result in  *)
(* eax ("resumed"), back in the caller holding the returned word           *)
(* ("returned"), or terminated by the kernel ("dead").                     *)
(***************************************************************************)
EXTENDS Integers, Sequences, FiniteSets, TLC

VARIABLES pc, regs, cur, ret, traps, rets, kres, mem, snap, mailbox, got

vars == <<pc, regs, cur, ret, traps, rets, kres, mem, snap, mailbox, got>>

\* ------------------------------------------------------------------------
\* Machine words: usize on the 32-bit target whose registers the asm names.
\* A word is represented by the signed 32-bit integer that has the same bit
\* pattern (0xFFFFFFFF is -1), so every word is a value TLC can hold and a
\* register move is the word itself.

Threads == {1, 2}

\* Syscall numbers
SYS_EXIT == 1
SYS_READ_renumbered == SYS_EXIT + 2
SYS_READ == 2
SYS_WRITE == 3
SYS_IPC_SEND == 4
SYS_IPC_RECV == 5
SYS_COPY_TO_USER == 6
SYS_COPY_FROM_USER == 7

Catalog ==
  {SYS_EXIT, SYS_READ, SYS_WRITE, SYS_IPC_SEND, SYS_IPC_RECV,
   SYS_COPY_TO_USER, SYS_COPY_FROM_USER}

\* Error sentinels of the result word (negative values as machine words).
E_WOULD_BLOCK == -1
E_INVALID_SERVICE == -2
E_INVALID_ARGUMENT == -3
E_PERMISSION_DENIED == -4
E_RESOURCE_EXHAUSTED == -5
E_TRUNCATION == -6

Sentinels ==
  {E_WOULD_BLOCK, E_INVALID_SERVICE, E_INVALID_ARGUMENT, E_PERMISSION_DENIED,
   E_RESOURCE_EXHAUSTED, E_TRUNCATION}

\* ------------------------------------------------------------------------
\* Inputs.  Identifiers: the catalog plus one unrecognized value on each side.
Ids == 0 .. 8

\* Argument tuples: pairwise distinct words in every position, with values
\* above 2^16 and above 2^31.
ArgTuples ==
  { <<-1, -2147483647, 65536, 258, 7>>,
    <<1, 2, 3, 4, 5>> }

\* Words the kernel may leave in eax.
Results == {0, 2} \cup Sentinels

NoCall == [N |-> 0, n |-> 0, args |-> <<>>]
NoRegs == <<>>

\* What is left of a call once the gateway has returned: the arguments were
\* live only for the duration of the trap; the caller still knows which
\* service the result word belongs to.
Done(c) == [N |-> 0, n |-> c.n, args |-> <<>>]

\* `let ret: usize;` before the asm block has assigned it; also the result
\* slot of a trap the kernel has not answered yet.
Unset == "unset"

\* ------------------------------------------------------------------------
\* IpcMessage: from, to, data: [u8; 256], len.
DATA_CAP_doubled == 2 * 256
DATA_CAP == 256

Zeros == [i \in 0 .. DATA_CAP - 1 |-> 0]
FillA == [i \in 0 .. DATA_CAP - 1 |-> 170]
FillB == [i \in 0 .. DATA_CAP - 1 |-> i % 251]

IpcMessage(from, to, data, len) ==
  [from |-> from, to |-> to, data |-> data, len |-> len]

ZeroMsg == IpcMessage(0, 0, Zeros, 0)

\* The address of each process's IpcMessage buffer in its own address space.
Bufs == {4096}

\* Pointers a caller passes: its buffer, or null.
Ptrs == Bufs \cup {0}

\* Payloads and lengths a caller writes into its buffer.
Payloads == {FillA, FillB}
Lens == {2, DATA_CAP, DATA_CAP + 1, -1}

NoMsg == <<>>

\* The IPC scenario: process 1 composes and sends, process 2 receives.
Senders == {1}
Receivers == {2}

\* Process identifiers a sender names: the receivers, and one that is no
\* process.
Targets == Receivers \cup {0}

\* Messages the kernel holds for one process at a time.
MaxPending == 1

\* The memory of a thread that has allocated no IpcMessage.
NoBufs == <<>>

\* ------------------------------------------------------------------------
\* The register bindings each asm! block declares with in(...).
In0(n) == [eax |-> n]
In1(n, arg1) == [eax |-> n, ebx |-> arg1]
In2(n, arg1, arg2) == [eax |-> n, ebx |-> arg1, ecx |-> arg2]
In3_swapped(n, arg1, arg2, arg3) ==
  [eax |-> n, ebx |-> arg1, ecx |-> arg3, edx |-> arg2]
In3(n, arg1, arg2, arg3) ==
  [eax |-> n, ebx |-> arg1, ecx |-> arg2, edx |-> arg3]
In4(n, arg1, arg2, arg3, arg4) ==
  [eax |-> n, ebx |-> arg1, ecx |-> arg2, edx |-> arg3,
   esi |-> arg4]
In5(n, arg1, arg2, arg3, arg4, arg5) ==
  [eax |-> n, ebx |-> arg1, ecx |-> arg2, edx |-> arg3,
   esi |-> arg4, edi |-> arg5]

\* Int80 with one register file shared by all threads.
Int80_shared(t, N, n, args, r) ==
  /\ pc[t] = "user"
  /\ pc' = [pc EXCEPT ![t] = "kernel"]
  /\ regs' = [u \in Threads |-> IF u = t \/ pc[u] = "kernel" THEN r ELSE regs[u]]
  /\ cur' = [cur EXCEPT ![t] = [N |-> N, n |-> n, args |-> args]]
  /\ traps' = [traps EXCEPT ![t] = 1]
  /\ rets' = [rets EXCEPT ![t] = 0]
  /\ ret' = [ret EXCEPT ![t] = Unset]
  /\ kres' = [kres EXCEPT ![t] = Unset]
  /\ snap' = [snap EXCEPT ![t] = mem[t]]
  /\ got' = [got EXCEPT ![t] = NoMsg]
  /\ UNCHANGED <<mem, mailbox>>

\* `int 0x80` executed by thread t with register file r, on behalf of the
\* call syscallN(n, args).
Int80(t, N, n, args, r) ==
  /\ pc[t] = "user"
  /\ pc' = [pc EXCEPT ![t] = "kernel"]
  /\ regs' = [regs EXCEPT ![t] = r]
  /\ cur' = [cur EXCEPT ![t] = [N |-> N, n |-> n, args |-> args]]
  /\ traps' = [traps EXCEPT ![t] = 1]
  /\ rets' = [rets EXCEPT ![t] = 0]
  /\ ret' = [ret EXCEPT ![t] = Unset]
  /\ kres' = [kres EXCEPT ![t] = Unset]
  /\ snap' = [snap EXCEPT ![t] = mem[t]]
  /\ got' = [got EXCEPT ![t] = NoMsg]
  /\ UNCHANGED <<mem, mailbox>>

syscall0(t, n) == Int80(t, 0, n, <<>>, In0(n))

syscall1(t, n, arg1) == Int80(t, 1, n, <<arg1>>, In1(n, arg1))

syscall2(t, n, arg1, arg2) == Int80(t, 2, n, <<arg1, arg2>>, In2(n, arg1, arg2))

syscall3(t, n, arg1, arg2, arg3) ==
  Int80(t, 3, n, <<arg1, arg2, arg3>>, In3(n, arg1, arg2, arg3))

syscall4(t, n, arg1, arg2, arg3, arg4) ==
  Int80(t, 4, n, <<arg1, arg2, arg3, arg4>>, In4(n, arg1, arg2, arg3, arg4))

syscall5(t, n, arg1, arg2, arg3, arg4, arg5) ==
  Int80(t, 5, n, <<arg1, arg2, arg3, arg4, arg5>>,
        In5(n, arg1, arg2, arg3, arg4, arg5))

\* SyscallReturn that traps again when the kernel answered would-block.
SyscallReturn_retry(t) ==
  /\ pc[t] = "resumed"
  /\ IF regs[t].eax = E_WOULD_BLOCK
     THEN /\ pc' = [pc EXCEPT ![t] = "kernel"]
          /\ regs' = [regs EXCEPT ![t] = [regs[t] EXCEPT !.eax = cur[t].n]]
          /\ traps' = [traps EXCEPT ![t] = traps[t] + 1]
          /\ UNCHANGED <<cur, ret, rets>>
     ELSE /\ pc' = [pc EXCEPT ![t] = "returned"]
          /\ ret' = [ret EXCEPT ![t] = regs[t].eax]
          /\ rets' = [rets EXCEPT ![t] = rets[t] + 1]
          /\ regs' = [regs EXCEPT ![t] = NoRegs]
          /\ cur' = [cur EXCEPT ![t] = Done(cur[t])]
          /\ UNCHANGED traps
  /\ UNCHANGED <<kres, mem, snap, mailbox, got>>

\* SyscallReturn that keeps only the low 16 bits of eax.
SyscallReturn_trunc(t) ==
  /\ pc[t] = "resumed"
  /\ pc' = [pc EXCEPT ![t] = "returned"]
  /\ ret' = [ret EXCEPT ![t] = regs[t].eax % 65536]
  /\ rets' = [rets EXCEPT ![t] = rets[t] + 1]
  /\ regs' = [regs EXCEPT ![t] = NoRegs]
  /\ cur' = [cur EXCEPT ![t] = Done(cur[t])]
  /\ UNCHANGED <<traps, kres, mem, snap, mailbox, got>>

\* SyscallReturn that reports every negative result as 0.
SyscallReturn_clamp(t) ==
  /\ pc[t] = "resumed"
  /\ pc' = [pc EXCEPT ![t] = "returned"]
  /\ ret' = [ret EXCEPT ![t] = IF regs[t].eax < 0 THEN 0 ELSE regs[t].eax]
  /\ rets' = [rets EXCEPT ![t] = rets[t] + 1]
  /\ regs' = [regs EXCEPT ![t] = NoRegs]
  /\ cur' = [cur EXCEPT ![t] = Done(cur[t])]
  /\ UNCHANGED <<traps, kres, mem, snap, mailbox, got>>

\* lateout("eax") ret; ret
SyscallReturn(t) ==
  /\ pc[t] = "resumed"
  /\ pc' = [pc EXCEPT ![t] = "returned"]
  /\ ret' = [ret EXCEPT ![t] = regs[t].eax]
  /\ rets' = [rets EXCEPT ![t] = rets[t] + 1]
  /\ regs' = [regs EXCEPT ![t] = NoRegs]
  /\ cur' = [cur EXCEPT ![t] = Done(cur[t])]
  /\ UNCHANGED <<traps, kres, mem, snap, mailbox, got>>

\* ------------------------------------------------------------------------
\* The kernel side of the trap: it leaves one word in eax and resumes the
\* thread, or never resumes it.
KernelResume(t, w) ==
  /\ pc[t] = "kernel"
  /\ pc' = [pc EXCEPT ![t] = "resumed"]
  /\ regs' = [regs EXCEPT ![t] = [regs[t] EXCEPT !.eax = w]]
  /\ kres' = [kres EXCEPT ![t] = w]
  /\ UNCHANGED <<cur, ret, traps, rets, mem, snap, mailbox, got>>

KernelNoReturn(t) ==
  /\ pc[t] = "kernel"
  /\ pc' = [pc EXCEPT ![t] = "dead"]
  /\ regs' = [regs EXCEPT ![t] = NoRegs]
  /\ cur' = [cur EXCEPT ![t] = Done(cur[t])]
  /\ UNCHANGED <<ret, traps, rets, kres, mem, snap, mailbox, got>>

\* The caller has interpreted the result word and goes on: the result was
\* alive only in the caller's local scope.
Consume(t) ==
  /\ pc[t] = "returned"
  /\ pc' = [pc EXCEPT ![t] = "user"]
  /\ cur' = [cur EXCEPT ![t] = NoCall]
  /\ ret' = [ret EXCEPT ![t] = Unset]
  /\ kres' = [kres EXCEPT ![t] = Unset]
  /\ traps' = [traps EXCEPT ![t] = 0]
  /\ rets' = [rets EXCEPT ![t] = 0]
  /\ snap' = [snap EXCEPT ![t] = NoBufs]
  /\ got' = [got EXCEPT ![t] = NoMsg]
  /\ UNCHANGED <<regs, mem, mailbox>>

\* ------------------------------------------------------------------------
\* User code writes the fields of its own IpcMessage (all fields are pub).
Compose(t, p, to, data, len) ==
  /\ pc[t] = "user"
  /\ p \in DOMAIN mem[t]
  /\ mem' = [mem EXCEPT ![t][p] = IpcMessage(t, to, data, len)]
  /\ UNCHANGED <<pc, regs, cur, ret, traps, rets, kres, snap, mailbox, got>>

\* ------------------------------------------------------------------------
\* The kernel's ipc-send and ipc-receive services.

\* Unsigned a > b on words.
UGt(a, b) == IF (a < 0) = (b < 0) THEN a > b ELSE a < 0

\* The values the kernel may find in a register: the bound word, or any word
\* when the asm block did not bind the register.
RegVal(r, name) == IF name \in DOMAIN r THEN {r[name]} ELSE Ptrs \cup Threads

\* The kernel's copy of a sender's message: the sender field is overwritten
\* with the true originating process.
KCopy(m, sender) == [m EXCEPT !.from = sender]

\* Pending that reads the sender's buffer when the message is delivered.
Pending_by_reference(e) == KCopy(mem[e.src][e.at], e.src)

\* A message waiting in a mailbox, as the kernel will deliver it.
Pending(e) == e.msg

\* Splice that stops one byte early.
Splice_short(src, dst, k) ==
  [i \in 0 .. DATA_CAP - 1 |-> IF i < k - 1 THEN src[i] ELSE dst[i]]

\* Bytes [0, k) of src over dst.
Splice(src, dst, k) ==
  [i \in 0 .. DATA_CAP - 1 |-> IF i < k THEN src[i] ELSE dst[i]]

\* What a receive may leave in the receiver's buffer old for message m: the
\* message verbatim, or its fields with only the valid bytes copied.
Deliveries(m, old) ==
  {m, [m EXCEPT !.data = Splice(m.data, old.data, m.len)]}

KernelFinish(t, w) ==
  /\ pc' = [pc EXCEPT ![t] = "resumed"]
  /\ regs' = [regs EXCEPT ![t] = [regs[t] EXCEPT !.eax = w]]
  /\ kres' = [kres EXCEPT ![t] = w]
  /\ UNCHANGED <<cur, ret, traps, rets, snap>>

KernelIpcSend(t) ==
  /\ pc[t] = "kernel"
  /\ regs[t].eax = SYS_IPC_SEND
  /\ \E target \in RegVal(regs[t], "ebx"), p \in RegVal(regs[t], "ecx") :
       IF target \notin Threads \/ p \notin DOMAIN mem[t]
       THEN /\ KernelFinish(t, E_INVALID_ARGUMENT)
            /\ UNCHANGED <<mem, mailbox, got>>
       ELSE IF UGt(mem[t][p].len, DATA_CAP)
       THEN /\ KernelFinish(t, E_TRUNCATION)
            /\ UNCHANGED <<mem, mailbox, got>>
       ELSE IF Len(mailbox[target]) >= MaxPending
       THEN /\ KernelFinish(t, E_RESOURCE_EXHAUSTED)
            /\ UNCHANGED <<mem, mailbox, got>>
       ELSE LET e == [src |-> t, at |-> p, msg |-> KCopy(mem[t][p], t),
                      sent |-> mem[t][p]]
            IN /\ KernelFinish(t, 0)
               /\ mailbox' = [mailbox EXCEPT ![target] = Append(@, e)]
               /\ got' = [got EXCEPT ![t] = <<e>>]
               /\ UNCHANGED mem

KernelIpcRecv(t) ==
  /\ pc[t] = "kernel"
  /\ regs[t].eax = SYS_IPC_RECV
  /\ \E p \in RegVal(regs[t], "ebx") :
       IF mailbox[t] = <<>>
       THEN /\ KernelFinish(t, E_WOULD_BLOCK)
            /\ UNCHANGED <<mem, mailbox, got>>
       ELSE IF p \notin DOMAIN mem[t]
       THEN /\ KernelFinish(t, E_INVALID_ARGUMENT)
            /\ UNCHANGED <<mem, mailbox, got>>
       ELSE LET e == Head(mailbox[t])
            IN \E m \in Deliveries(Pending(e), mem[t][p]) :
                 /\ KernelFinish(t, 0)
                 /\ mem' = [mem EXCEPT ![t][p] = m]
                 /\ mailbox' = [mailbox EXCEPT ![t] = Tail(@)]
                 /\ got' = [got EXCEPT ![t] = <<e>>]

\* ------------------------------------------------------------------------
Init ==
  /\ pc = [t \in Threads |-> "user"]
  /\ regs = [t \in Threads |-> NoRegs]
  /\ cur = [t \in Threads |-> NoCall]
  /\ ret = [t \in Threads |-> Unset]
  /\ traps = [t \in Threads |-> 0]
  /\ rets = [t \in Threads |-> 0]
  /\ kres = [t \in Threads |-> Unset]
  /\ mem = [t \in Threads |-> NoBufs]
  /\ snap = [t \in Threads |-> NoBufs]
  /\ mailbox = [t \in Threads |-> <<>>]
  /\ got = [t \in Threads |-> NoMsg]

Next ==
  \/ \E t \in Threads, n \in Ids : syscall0(t, n)
  \/ \E t \in Threads, n \in Ids, a \in ArgTuples : syscall1(t, n, a[1])
  \/ \E t \in Threads, n \in Ids, a \in ArgTuples : syscall2(t, n, a[1], a[2])
  \/ \E t \in Threads, n \in Ids, a \in ArgTuples :
        syscall3(t, n, a[1], a[2], a[3])
  \/ \E t \in Threads, n \in Ids, a \in ArgTuples :
        syscall4(t, n, a[1], a[2], a[3], a[4])
  \/ \E t \in Threads, n \in Ids, a \in ArgTuples :
        syscall5(t, n, a[1], a[2], a[3], a[4], a[5])
  \/ \E t \in Threads : SyscallReturn(t)
  \/ \E t \in Threads, w \in Results : KernelResume(t, w)
  \/ \E t \in Threads : KernelNoReturn(t)
  \/ \E t \in Threads : Consume(t)

Spec == Init /\ [][Next]_vars

\* ------------------------------------------------------------------------
\* The IPC protocol: two processes, each with one IpcMessage; the sender
\* calls ipc-send through syscall2, the receiver ipc-receive through syscall1.
InitIpc ==
  /\ pc = [t \in Threads |-> "user"]
  /\ regs = [t \in Threads |-> NoRegs]
  /\ cur = [t \in Threads |-> NoCall]
  /\ ret = [t \in Threads |-> Unset]
  /\ traps = [t \in Threads |-> 0]
  /\ rets = [t \in Threads |-> 0]
  /\ kres = [t \in Threads |-> Unset]
  /\ mem = [t \in Threads |-> [p \in Bufs |-> ZeroMsg]]
  /\ snap = [t \in Threads |-> NoBufs]
  /\ mailbox = [t \in Threads |-> <<>>]
  /\ got = [t \in Threads |-> NoMsg]

NextIpc ==
  \/ \E t \in Senders, p \in Bufs, to \in Receivers, d \in Payloads, l \in Lens :
        Compose(t, p, to, d, l)
  \/ \E t \in Senders, target \in Targets, p \in Bufs :
        syscall2(t, SYS_IPC_SEND, target, p)
  \/ \E t \in Receivers, p \in Bufs : syscall1(t, SYS_IPC_RECV, p)
  \/ \E t \in Threads : KernelIpcSend(t)
  \/ \E t \in Threads : KernelIpcRecv(t)
  \/ \E t \in Threads : SyscallReturn(t)
  \/ \E t \in Threads : Consume(t)

SpecIpc == InitIpc /\ [][NextIpc]_vars

\* ========================================================================
\* Properties of the gateway (checked under Spec).

\* C1: one call to syscallN executes `int 0x80` exactly once and then returns
\* exactly one result word: while the call is in the kernel or resumed it has
\* trapped once and returned nothing, and once it has returned it has trapped
\* once and returned once, for every identifier (recognized or not), every
\* arity and every kernel result.
ExactlyOneTrapPerCall ==
  \A t \in Threads :
    /\ pc[t] \in {"kernel", "resumed", "dead"} => traps[t] = 1 /\ rets[t] = 0
    /\ pc[t] = "returned" => traps[t] = 1 /\ rets[t] = 1

\* An unrecognized identifier was trapped once and answered by the kernel
\* with the would-block word, which was returned.
WitnessC1 ==
  \E t \in Threads :
    /\ pc[t] = "returned"
    /\ cur[t].n \notin Catalog
    /\ ret[t] = E_WOULD_BLOCK
    /\ traps[t] = 1

\* The slot of argument i, the same for every arity.
ArgSlot == <<"ebx", "ecx", "edx", "esi", "edi">>

\* C2: at the trap the kernel observes the identifier in eax and argument i
\* in the i-th slot (ebx, ecx, edx, esi, edi), each the caller's word
\* unchanged, the slot of argument i not depending on the arity; no other
\* register is bound.
MarshalingFixedSlots ==
  \A t \in Threads :
    pc[t] = "kernel" =>
      /\ DOMAIN regs[t] = {"eax"} \cup {ArgSlot[i] : i \in 1 .. cur[t].N}
      /\ regs[t].eax = cur[t].n
      /\ \A i \in 1 .. cur[t].N : regs[t][ArgSlot[i]] = cur[t].args[i]

\* A three-argument call with words above 2^16 and 2^31 is in the kernel.
WitnessC2 ==
  \E t \in Threads :
    /\ pc[t] = "kernel"
    /\ cur[t].N = 3
    /\ cur[t].args = <<-1, -2147483647, 65536>>
    /\ regs[t].edx = 65536

\* C3: the word returned to the caller is the word the kernel left in eax,
\* for every result including every error sentinel.
ResultVerbatim ==
  \A t \in Threads : pc[t] = "returned" => ret[t] = kres[t]

\* A call has returned the truncation sentinel.
WitnessC3 ==
  \E t \in Threads :
    pc[t] = "returned" /\ kres[t] = E_TRUNCATION /\ ret[t] = E_TRUNCATION

\* C4: the catalog constants are exit=1, read=2, write=3, ipc-send=4,
\* ipc-receive=5, copy-to-user=6, copy-from-user=7: seven pairwise distinct
\* values that fill 1..7, and a trap made with a catalog constant shows the
\* kernel a value of 1..7.
CatalogDense ==
  /\ SYS_EXIT = 1 /\ SYS_READ = 2 /\ SYS_WRITE = 3 /\ SYS_IPC_SEND = 4
  /\ SYS_IPC_RECV = 5 /\ SYS_COPY_TO_USER = 6 /\ SYS_COPY_FROM_USER = 7
  /\ Cardinality(Catalog) = 7
  /\ Catalog = 1 .. 7
  /\ \A t \in Threads :
       pc[t] = "kernel" /\ cur[t].n \in Catalog => regs[t].eax \in 1 .. 7

\* A trap with the last catalog constant is in the kernel.
WitnessC4 ==
  \E t \in Threads :
    pc[t] = "kernel" /\ cur[t].n = SYS_COPY_FROM_USER /\ regs[t].eax = 7

\* C6: two threads with calls in flight at the same time each see their own
\* identifier and arguments at the trap, their own kernel result in eax on
\* resumption and their own result in the returned word.
NoCrossTalk ==
  \A t, u \in Threads :
    t /= u /\ pc[u] /= "user" =>
      /\ pc[t] = "kernel" =>
           /\ regs[t].eax = cur[t].n
           /\ \A i \in 1 .. cur[t].N : regs[t][ArgSlot[i]] = cur[t].args[i]
      /\ pc[t] = "resumed" => regs[t].eax = kres[t]
      /\ pc[t] = "returned" => ret[t] = kres[t]

\* One thread has returned and the other is resumed, with different
\* identifiers and different kernel results.
WitnessC6 ==
  /\ pc[1] = "returned" /\ pc[2] = "resumed"
  /\ cur[1].n /= cur[2].n
  /\ kres[1] /= kres[2]
  /\ ret[1] = kres[1] /\ regs[2].eax = kres[2]

\* The argument count the catalog declares for each service.
DeclaredArity ==
  {<<SYS_EXIT, 1>>, <<SYS_READ, 3>>, <<SYS_WRITE, 3>>, <<SYS_IPC_SEND, 2>>,
   <<SYS_IPC_RECV, 1>>, <<SYS_COPY_TO_USER, 3>>, <<SYS_COPY_FROM_USER, 3>>}

\* C8: every trap carries a catalog identifier together with that service's
\* declared argument count.
OnlyTypedTraps ==
  \A t \in Threads :
    pc[t] = "kernel" => <<cur[t].n, cur[t].N>> \in DeclaredArity

\* ========================================================================
\* Properties of the IPC protocol (checked under SpecIpc).

\* Bytes [0, k) of two payloads agree.
SamePrefix(a, b, k) == \A i \in 0 .. DATA_CAP - 1 : i < k => a[i] = b[i]

RoundTripPrefix ==
  \A r \in Threads :
    pc[r] = "returned" /\ cur[r].n = SYS_IPC_RECV /\ ret[r] = 0 =>
      /\ got[r] /= NoMsg
      /\ \A p \in DOMAIN mem[r] :
           /\ mem[r][p].len = got[r][1].sent.len
           /\ SamePrefix(mem[r][p].data, got[r][1].sent.data, got[r][1].sent.len)

\* A 2-byte message was delivered and the receiver's bytes beyond len differ
\* from the sender's.
WitnessC7 ==
  \E r \in Threads : \E p \in DOMAIN mem[r] :
    /\ pc[r] = "returned" /\ cur[r].n = SYS_IPC_RECV /\ ret[r] = 0
    /\ got[r] /= NoMsg
    /\ got[r][1].sent.len = 2
    /\ mem[r][p].data[0] = got[r][1].sent.data[0]
    /\ mem[r][p].data[1] = got[r][1].sent.data[1]
    /\ mem[r][p].data[2] /= got[r][1].sent.data[2]

\* C9: a message accepted by ipc-send stays what the sender's buffer held at
\* the send, whatever the sender writes to the buffer afterwards: while it
\* waits in the mailbox and once it is in the receiver's buffer.
CopyAndForget ==
  /\ \A r \in Threads : \A i \in 1 .. Len(mailbox[r]) :
       LET e == mailbox[r][i]
       IN /\ Pending(e).len = e.sent.len
          /\ Pending(e).to = e.sent.to
          /\ Pending(e).data = e.sent.data
  /\ \A r \in Threads :
       pc[r] = "resumed" /\ cur[r].n = SYS_IPC_RECV /\ got[r] /= NoMsg =>
         \A p \in DOMAIN mem[r] :
           /\ mem[r][p].len = got[r][1].sent.len
           /\ SamePrefix(mem[r][p].data, got[r][1].sent.data, got[r][1].sent.len)

\* The sender is back in user code and its buffer no longer holds what it
\* sent, while the message waits in the receiver's mailbox.
WitnessC9 ==
  \E r \in Threads : \E i \in 1 .. Len(mailbox[r]) :
    LET e == mailbox[r][i]
    IN /\ pc[e.src] = "user"
       /\ mem[e.src][e.at].data /= e.sent.data
       /\ mem[e.src][e.at].len /= e.sent.len

\* C10: an ipc-receive that found no message pending returns the would-block
\* sentinel and leaves from, to, data and len of the caller's buffer as they
\* were before the call.
WouldBlockUntouched ==
  \A r \in Threads :
    pc[r] = "returned" /\ cur[r].n = SYS_IPC_RECV /\ got[r] = NoMsg =>
      /\ ret[r] = E_WOULD_BLOCK
      /\ mem[r] = snap[r]

\* A receive returned would-block on a buffer that holds an earlier message.
WitnessC10 ==
  \E r \in Threads : \E p \in DOMAIN mem[r] :
    /\ pc[r] = "returned" /\ cur[r].n = SYS_IPC_RECV /\ got[r] = NoMsg
    /\ ret[r] = E_WOULD_BLOCK
    /\ mem[r][p].len = 256
    /\ mem[r][p].from = 1
====
